---- MODULE Spec2Model ----
(***************************************************************************)
(* gleipnir: the daemon's policy evaluation engine (gleipnird/src/rules.rs)*)
(* and socket-diag client (gleipnird/src/netlink.rs), and the front-end's  *)
(* policy ingress (gleipnir/src/implementation.rs).                        *)
(*                                                                         *)
(* Rust values are modelled as follows.                                    *)
(*   Option<T>      None is <<>>, Some(x) is <<x>>                         *)
(*   Vec<usize>     a sequence of 0-based rule indices                     *)
(*   HashMap<K,V>   a function whose domain is the set of keys present     *)
(*   IpAddr         [fam |-> "V4" | "V6", oct |-> the octets]              *)
(*   SocketAddr     [ip |-> IpAddr, port |-> u16]                          *)
(*   Instant        milliseconds on a monotonic clock                      *)
(*   Port           the two bytes, as a pair                               *)
(*   Ipv4or6        the 16 bytes of the union, as a sequence               *)
(* Byte counts (usize) stay far below usize::MAX in every state explored,  *)
(* so their arithmetic is plain integer arithmetic.                        *)
(***************************************************************************)
EXTENDS Integers, Sequences, FiniteSets, TLC

VARIABLES
    ir,            \* the IndexedRules in force: indices, raw, default_target
    rate_state,    \* IndexedRules.rate_state: RefCell<Vec<Bucket>>
    cache,         \* IndexedRules.cache: the LRU cache, least recent first
    now,           \* what Instant::now() returns
    last,          \* the last is_acceptable call: arguments, outcome, buckets before/after
    hist,          \* the calls made so far: packet, length, time, returned pair
    qrules,        \* Backend.rules: the rules being edited in the front-end
    q_default,     \* Backend.default_target
    q_rates,       \* Backend.rate_rules (the limits)
    sent,          \* the Rules record last handed to DaemonClient::set_rules, if any
    apply_error,   \* whether the last apply_rules emitted apply_rules_error
    diag,          \* one SockDiag::query call: arguments, request sent, responses, r, result
    conv,          \* the last netlink conversion applied: its input and its outputs
    conc           \* callers of is_acceptable running step by step, and the cache's borrow flag

vars == <<ir, rate_state, cache, now, last, hist, qrules, q_default, q_rates, sent, apply_error,
          diag, conv, conc>>

\* ------------------------------------------------------------------ values

None == <<>>
Some(x) == <<x>>
IsSome(o) == o # <<>>
Unwrap(o) == o[1]

Accept == [kind |-> "Accept", rate_id |-> 0]
Drop == [kind |-> "Drop", rate_id |-> 0]
RateLimit(rate_id) == [kind |-> "RateLimit", rate_id |-> rate_id]

V4(a, b, c, d) == [fam |-> "V4", oct |-> <<a, b, c, d>>]
V6(oct) == [fam |-> "V6", oct |-> oct]
SockAddr(ip, port) == [ip |-> ip, port |-> port]

Rule(device, proto, exe, port, subnet, target) ==
    [device |-> device, proto |-> proto, exe |-> exe, port |-> port,
     subnet |-> subnet, target |-> target]

Packet(device, protocol, addr, exe) ==
    [device |-> device, protocol |-> protocol, addr |-> addr, exe |-> exe]

\* u16: the width of a port number
U16 == 65536

\* ------------------------------------------------------------------ addresses

RECURSIVE Pow2(_)
Pow2(n) == IF n = 0 THEN 1 ELSE 2 * Pow2(n - 1)

Min(a, b) == IF a < b THEN a ELSE b
Max(a, b) == IF a > b THEN a ELSE b

\* the number of leading bits of octet i (1-based) that a mask of masklen bits keeps
KeptBits(i, masklen) == Max(0, Min(8, masklen - 8 * (i - 1)))

\* Address::mask: the address with every bit after the first masklen bits cleared
AddressMask(ip, masklen) ==
    [fam |-> ip.fam,
     oct |-> [i \in DOMAIN ip.oct |->
                 LET low == Pow2(8 - KeptBits(i, masklen))
                 IN  (ip.oct[i] \div low) * low]]

\* ------------------------------------------------------------------ Rule

\* Rule::match_target: Some(target) when the packet passes all five filters
Rule_match_target(rule, device, protocol, addr, exe) ==
    IF  /\ (IsSome(rule.device) => Unwrap(rule.device) = device)
        /\ (IsSome(rule.proto) => Unwrap(rule.proto) = protocol)
        /\ (IsSome(rule.exe) => Unwrap(rule.exe) = exe)
        /\ (IsSome(rule.port) =>
                /\ Unwrap(rule.port)[1] <= addr.port
                /\ addr.port <= Unwrap(rule.port)[2])
        /\ (IsSome(rule.subnet) =>
                LET subnet == Unwrap(rule.subnet)[1]
                    mask == Unwrap(rule.subnet)[2]
                IN  /\ subnet.fam = addr.ip.fam
                    /\ AddressMask(subnet, mask) = AddressMask(addr.ip, mask))
    THEN Some(rule.target)
    ELSE None

\* ------------------------------------------------------------------ Bucket

PERIOD == 500

\* Bucket::new
Bucket_new(limit, at) == [bytes |-> 0, timestamp |-> at, limit |-> limit]

\* Bucket::bytes: the bucket as the access leaves it; the value returned is its bytes
Bucket_bytes(b, at) ==
    IF b.timestamp + PERIOD >= at
    THEN [b EXCEPT !.timestamp = at, !.bytes = 0]
    ELSE b

\* Bucket::stuff with <= in place of <
Bucket_stuff_le(b, at, size) ==
    LET b1 == Bucket_bytes(b, at)
    IN  IF b1.bytes + size <= b1.limit
        THEN [bucket |-> [b1 EXCEPT !.bytes = @ + size], ret |-> TRUE]
        ELSE [bucket |-> b1, ret |-> FALSE]

\* Bucket::stuff that commits the charge whatever the comparison says
Bucket_stuff_always_commits(b, at, size) ==
    LET b1 == Bucket_bytes(b, at)
    IN  [bucket |-> [b1 EXCEPT !.bytes = @ + size],
         ret |-> b1.bytes + size < b1.limit]

\* Bucket::stuff: [bucket |-> the bucket afterwards, ret |-> the value returned]
Bucket_stuff(b, at, size) ==
    LET b1 == Bucket_bytes(b, at)
    IN  IF b1.bytes + size < b1.limit
        THEN [bucket |-> [b1 EXCEPT !.bytes = @ + size], ret |-> TRUE]
        ELSE [bucket |-> b1, ret |-> FALSE]

\* ------------------------------------------------------------------ IndexedRules::new

\* HashMap::get(k).unwrap_or(&empty)
MapGet(m, k) == IF k \in DOMAIN m THEN m[k] ELSE <<>>

\* HashMap::insert(k, vec![index]): the entry is replaced, not extended
MapPush_replace(m, k, index) ==
    [x \in (DOMAIN m) \cup {k} |-> IF x = k THEN <<index>> ELSE m[x]]

\* HashMap::entry(k).or_default().push(index)
MapPush(m, k, index) ==
    [x \in (DOMAIN m) \cup {k} |-> IF x = k THEN Append(MapGet(m, k), index) ELSE m[x]]

\* the struct literal of IndexedRules::new: every index empty
EmptyIndexedRules(default_target, rules) ==
    [device |-> <<>>, any_device |-> <<>>,
     proto |-> <<>>, any_proto |-> <<>>,
     exe |-> <<>>, any_exe |-> <<>>,
     v4_table |-> <<>>, any_v4 |-> <<>>,
     v6_table |-> <<>>, any_v6 |-> <<>>,
     port |-> <<>>, any_port |-> <<>>,
     raw |-> rules, default_target |-> default_target]

\* the half-open interval start..end + 1 of an inclusive port range, in u16 arithmetic
PortInterval(port_range, index) ==
    [start |-> port_range[1], end |-> (port_range[2] + 1) % U16, value |-> index]

\* one turn of the loop over rules.into_iter().enumerate()
InsertRule(r, rule, index) ==
    LET r1 == IF IsSome(rule.device)
              THEN [r EXCEPT !.device = MapPush(@, Unwrap(rule.device), index)]
              ELSE [r EXCEPT !.any_device = Append(@, index)]
        r2 == IF IsSome(rule.proto)
              THEN [r1 EXCEPT !.proto = MapPush(@, Unwrap(rule.proto), index)]
              ELSE [r1 EXCEPT !.any_proto = Append(@, index)]
        r3 == IF IsSome(rule.exe)
              THEN [r2 EXCEPT !.exe = MapPush(@, Unwrap(rule.exe), index)]
              ELSE [r2 EXCEPT !.any_exe = Append(@, index)]
        r4 == IF IsSome(rule.port)
              THEN [r3 EXCEPT !.port = Append(@, PortInterval(Unwrap(rule.port), index))]
              ELSE [r3 EXCEPT !.any_port = Append(@, index)]
    IN  IF IsSome(rule.subnet)
        THEN LET subnet == Unwrap(rule.subnet)[1]
                 mask == Unwrap(rule.subnet)[2]
                 key == <<AddressMask(subnet, mask), mask>>
             IN  IF subnet.fam = "V4"
                 THEN [r4 EXCEPT !.v4_table = MapPush(@, key, index)]
                 ELSE [r4 EXCEPT !.v6_table = MapPush(@, key, index)]
        ELSE [r4 EXCEPT !.any_v4 = Append(@, index), !.any_v6 = Append(@, index)]

\* the loop over the rules taken from the last rule to the first
RECURSIVE InsertRules_rev(_, _, _)
InsertRules_rev(r, rules, index) ==
    IF index = Len(rules)
    THEN r
    ELSE InsertRule(InsertRules_rev(r, rules, index + 1), rules[index + 1], index)

RECURSIVE InsertRules(_, _, _)
InsertRules(r, rules, index) ==
    IF index = Len(rules)
    THEN r
    ELSE InsertRules(InsertRule(r, rules[index + 1], index), rules, index + 1)

\* IndexedRules::new: the indices, raw and default_target
IndexedRules_new(default_target, rules) ==
    InsertRules(EmptyIndexedRules(default_target, rules), rules, 0)

\* IndexedRules::new: rate_state, one Bucket per limit, created at time at
RateState_new(rate_rules, at) ==
    [i \in 1..Len(rate_rules) |-> Bucket_new(rate_rules[i], at)]

\* ------------------------------------------------------------------ IndexedRules::match_target

SeqRange(s) == {s[i] : i \in 1..Len(s)}

\* IntervalTree::query_point: the values of the intervals with start <= p < end
QueryPoint(tree, p) ==
    LET hits == SelectSeq(tree, LAMBDA e : e.start <= p /\ p < e.end)
    IN  [i \in 1..Len(hits) |-> hits[i].value]

\* a lookup that returns the entry with the shortest covering prefix
ShortestMatch(table, ip) ==
    LET covering == {k \in DOMAIN table : k[1] = AddressMask(ip, k[2])}
    IN  IF covering = {}
        THEN <<>>
        ELSE table[CHOOSE k \in covering : \A o \in covering : o[2] >= k[2]]

\* IpLookupTable::longest_match(ip).map(|x| x.2).unwrap_or(&empty)
LongestMatch(table, ip) ==
    LET covering == {k \in DOMAIN table : k[1] = AddressMask(ip, k[2])}
    IN  IF covering = {}
        THEN <<>>
        ELSE table[CHOOSE k \in covering : \A o \in covering : o[2] <= k[2]]

\* the five (exact, any) pairs of match_target, in the order of its array
CandidatePairs(r, device, protocol, addr, exe) ==
    << <<MapGet(r.device, device), r.any_device>>,
       <<MapGet(r.proto, protocol), r.any_proto>>,
       <<MapGet(r.exe, exe), r.any_exe>>,
       <<QueryPoint(r.port, addr.port), r.any_port>>,
       IF addr.ip.fam = "V4"
       THEN <<LongestMatch(r.v4_table, addr.ip), r.any_v4>>
       ELSE <<LongestMatch(r.v6_table, addr.ip), r.any_v6>> >>

\* Iterator::min_by_key(|(exact, any)| exact.len() + any.len()): the first minimum
MinPair(list) ==
    LET key(i) == Len(list[i][1]) + Len(list[i][2])
        first == CHOOSE i \in 1..Len(list) :
                    /\ \A j \in 1..Len(list) : key(i) <= key(j)
                    /\ \A j \in 1..(i - 1) : key(j) > key(i)
    IN  list[first]

\* the ids match_target scans: exact chained with any, of the chosen pair
Candidates(r, device, protocol, addr, exe) ==
    LET pair == MinPair(CandidatePairs(r, device, protocol, addr, exe))
    IN  pair[1] \o pair[2]

\* IndexedRules::match_target: [rule_id |-> Option<usize>, target |-> RuleTarget]
match_target(r, device, protocol, addr, exe) ==
    LET matching == {id \in SeqRange(Candidates(r, device, protocol, addr, exe)) :
                        IsSome(Rule_match_target(r.raw[id + 1], device, protocol, addr, exe))}
    IN  IF matching = {}
        THEN [rule_id |-> None, target |-> r.default_target]
        ELSE LET id == CHOOSE i \in matching : \A j \in matching : i <= j
             IN  [rule_id |-> Some(id),
                  target |-> Unwrap(Rule_match_target(r.raw[id + 1], device, protocol, addr, exe))]

\* ------------------------------------------------------------------ the decision cache

\* LruCache::with_capacity(2048), scaled down
CacheCapacity == 1

\* the fingerprint without the protocol
lru_index_without_protocol(pkt) == <<pkt.device, pkt.addr, pkt.exe>>

\* the DefaultHasher fingerprint of (device, protocol, addr, exe): the payload length
\* is not hashed; distinct tuples are taken to hash to distinct values
lru_index(pkt) == <<pkt.device, pkt.protocol, pkt.addr, pkt.exe>>

CacheHas(c, key) == \E i \in 1..Len(c) : c[i].key = key
CacheWithout(c, key) == SelectSeq(c, LAMBDA e : e.key # key)

\* LruCache::get: the value stored under key (the entry becomes the most recent)
CacheValue(c, key) == (CHOOSE e \in SeqRange(c) : e.key = key).value
CacheTouch(c, key) ==
    Append(CacheWithout(c, key), [key |-> key, value |-> CacheValue(c, key)])

\* LruCache::insert: the least recently used entry goes when the capacity is exceeded
CacheInsert(c, key, value) ==
    LET c1 == Append(CacheWithout(c, key), [key |-> key, value |-> value])
    IN  IF Len(c1) > CacheCapacity THEN Tail(c1) ELSE c1

\* ------------------------------------------------------------------ IndexedRules::is_acceptable

\* is_acceptable that charges the bucket on a cache miss only
is_acceptable_charge_on_miss(r, c, rs, at, pkt, len) ==
    LET key == lru_index(pkt)
        hit == CacheHas(c, key)
        cls == IF hit THEN CacheValue(c, key)
               ELSE match_target(r, pkt.device, pkt.protocol, pkt.addr, pkt.exe)
        c1 == IF hit THEN CacheTouch(c, key) ELSE CacheInsert(c, key, cls)
        rate_id == cls.target.rate_id
    IN  IF cls.target.kind = "RateLimit" /\ rate_id >= Len(rs)
        THEN [outcome |-> "panic", cache |-> c1, rate_state |-> rs, hit |-> hit,
              target |-> cls.target, rule_id |-> cls.rule_id, accept |-> FALSE]
        ELSE LET charged == Bucket_stuff(rs[rate_id + 1], at, len)
             IN  [outcome |-> "ok", cache |-> c1,
                  rate_state |-> IF cls.target.kind = "RateLimit" /\ ~hit
                                 THEN [rs EXCEPT ![rate_id + 1] = charged.bucket]
                                 ELSE rs,
                  hit |-> hit, target |-> cls.target, rule_id |-> cls.rule_id,
                  accept |-> CASE cls.target.kind = "Accept" -> TRUE
                               [] cls.target.kind = "Drop" -> FALSE
                               [] OTHER -> charged.ret]

\* IndexedRules::is_acceptable at time at: the cache and the buckets afterwards, and
\* either (rule_id, accept) returned or the panic of an out-of-bounds rate_state[rate_id]
is_acceptable(r, c, rs, at, pkt, len) ==
    LET key == lru_index(pkt)
        hit == CacheHas(c, key)
        cls == IF hit THEN CacheValue(c, key)
               ELSE match_target(r, pkt.device, pkt.protocol, pkt.addr, pkt.exe)
        c1 == IF hit THEN CacheTouch(c, key) ELSE CacheInsert(c, key, cls)
        rate_id == cls.target.rate_id
    IN  IF cls.target.kind = "RateLimit" /\ rate_id >= Len(rs)
        THEN [outcome |-> "panic", cache |-> c1, rate_state |-> rs, hit |-> hit,
              target |-> cls.target, rule_id |-> cls.rule_id, accept |-> FALSE]
        ELSE LET charged == Bucket_stuff(rs[rate_id + 1], at, len)
             IN  [outcome |-> "ok", cache |-> c1,
                  rate_state |-> IF cls.target.kind = "RateLimit"
                                 THEN [rs EXCEPT ![rate_id + 1] = charged.bucket]
                                 ELSE rs,
                  hit |-> hit, target |-> cls.target, rule_id |-> cls.rule_id,
                  accept |-> CASE cls.target.kind = "Accept" -> TRUE
                               [] cls.target.kind = "Drop" -> FALSE
                               [] OTHER -> charged.ret]

\* ------------------------------------------------------------------ bounds and inputs

MaxCalls == 4
BucketMaxCalls == 4
MaxRules == 2
MaxTime == 1200

\* the clock advances by one of these between calls
Steps == {100, 500}

\* a Rules record as the daemon receives it
Policy(default_target, rules, rate_rules) ==
    [default_target |-> default_target, rules |-> rules, rate_rules |-> rate_rules]

RECURSIVE SeqsUpTo(_, _)
SeqsUpTo(S, n) ==
    IF n = 0 THEN {<<>>}
    ELSE LET shorter == SeqsUpTo(S, n - 1)
         IN  shorter \cup {Append(s, x) : s \in shorter, x \in S}

NoCall == [outcome |-> "none"]

\* no SockDiag::query is under way, no conversion was applied, nobody is inside
\* is_acceptable
NoQuery == [pc |-> "idle"]
NoConversion == [op |-> "none"]
Threads == {1, 2}
IdleThread == [pc |-> "idle", pkt |-> None, len |-> 0, cls |-> None, accept |-> FALSE,
               steps |-> <<>>]
NoCallers == [borrowed |-> FALSE, th |-> [t \in Threads |-> IdleThread]]

\* ------------------------------------------------------------------ the daemon

\* From<Rules> for IndexedRules at time at: a fresh table, fresh buckets, an empty cache
InitDaemon(policy, at) ==
    /\ ir = IndexedRules_new(policy.default_target, policy.rules)
    /\ rate_state = RateState_new(policy.rate_rules, at)
    /\ cache = <<>>
    /\ now = at
    /\ last = NoCall
    /\ hist = <<>>

\* the front-end before anything is edited (Backend::new)
InitBackend ==
    /\ qrules = <<>>
    /\ q_default = 0
    /\ q_rates = <<>>
    /\ sent = None
    /\ apply_error = FALSE
    /\ diag = NoQuery
    /\ conv = NoConversion
    /\ conc = NoCallers

\* the thread has unwound: out of is_acceptable, or out of IndexedRules::new
Panicked == last.outcome \in {"panic", "new_panic"}

\* one call of IndexedRules::is_acceptable(pkt.device, pkt.protocol, pkt.addr, len, pkt.exe)
IsAcceptable(pkt, len) ==
    /\ ~Panicked
    /\ \E res \in {is_acceptable(ir, cache, rate_state, now, pkt, len)} :
           /\ cache' = res.cache
           /\ rate_state' = res.rate_state
           /\ last' = [outcome |-> res.outcome, pkt |-> pkt, len |-> len, at |-> now,
                       hit |-> res.hit, target |-> res.target,
                       rule_id |-> res.rule_id, accept |-> res.accept,
                       pre |-> rate_state, post |-> res.rate_state]
           /\ hist' = Append(hist, [outcome |-> res.outcome, pkt |-> pkt, len |-> len,
                                    at |-> now, target |-> res.target,
                                    rule_id |-> res.rule_id, accept |-> res.accept])
    /\ UNCHANGED <<ir, now, qrules, q_default, q_rates, sent, apply_error, diag, conv, conc>>

\* time passes
Tick ==
    /\ ~Panicked
    /\ \E d \in Steps :
          /\ now + d <= MaxTime
          /\ now' = now + d
    /\ UNCHANGED <<ir, rate_state, cache, last, hist, qrules, q_default, q_rates, sent,
                   apply_error, diag, conv, conc>>

\* ------------------------------------------------------------------ Spec: a family of policies

Ip2222 == V4(2, 2, 2, 2)
Ip2221 == V4(2, 2, 2, 1)

\* rule 0 of a policy may cover an address with a shorter mask than rule 1; the third
\* rule names a second bucket, which only the second list of limits provides
RuleUniverse ==
    { Rule(None, None, None, None, Some(<<Ip2222, 30>>), Accept),
      Rule(Some("Input"), None, None, None, Some(<<Ip2222, 32>>), RateLimit(0)),
      Rule(None, Some("Tcp"), Some("a"), Some(<<100, 200>>), None, RateLimit(1)) }

Policies ==
    { Policy(dr[1], rules, dr[2]) :
        dr \in {<<Drop, <<1000>> >>, <<RateLimit(0), <<1000, 500>> >>},
        rules \in SeqsUpTo(RuleUniverse, MaxRules) }

Packets ==
    { Packet("Input", proto, SockAddr(ip, 100), "a") :
        proto \in {"Tcp", "Udp"}, ip \in {Ip2222, Ip2221} }

Lens == {400, 700}

Init ==
    /\ \E policy \in Policies : InitDaemon(policy, 0)
    /\ InitBackend

Classify ==
    /\ Len(hist) < MaxCalls
    /\ \E pkt \in Packets, len \in Lens : IsAcceptable(pkt, len)

\* every call of this specification is made at the instant of construction; the
\* passing of time is explored by SpecBucket
Next == Classify

Spec == Init /\ [][Next]_vars

\* ------------------------------------------------------------------ SpecBucket: one rate-limited rule

BucketLimits == {1000, 800}
BucketLens == {400, 600}

BucketPacket == Packet("Input", "Tcp", SockAddr(Ip2222, 100), "a")

BucketPolicies ==
    { Policy(Drop, <<Rule(None, None, None, None, None, RateLimit(0))>>, <<limit>>) :
        limit \in BucketLimits }

InitBucket ==
    /\ \E policy \in BucketPolicies : InitDaemon(policy, 0)
    /\ InitBackend

Charge ==
    /\ Len(hist) < BucketMaxCalls
    /\ \E len \in BucketLens : IsAcceptable(BucketPacket, len)

NextBucket == Charge \/ Tick

SpecBucket == InitBucket /\ [][NextBucket]_vars

\* ------------------------------------------------------------------ claims about the matcher

\* the indices of the rules of raw that the packet passes on all five filters
FullMatches(raw, pkt) ==
    {i \in 0..(Len(raw) - 1) :
        IsSome(Rule_match_target(raw[i + 1], pkt.device, pkt.protocol, pkt.addr, pkt.exe))}

SetMin(S) == CHOOSE i \in S : \A j \in S : i <= j

\* the target behind a returned rule index
TargetOf(rule_id) ==
    IF IsSome(rule_id) THEN ir.raw[Unwrap(rule_id) + 1].target ELSE ir.default_target

\* C1: the rule index is_acceptable returns is the smallest index of a rule that fully
\* matches the packet over the raw list, and None, with the default target applied,
\* when no rule does.
C1_FirstFullMatchWins ==
    last.outcome = "ok" =>
        LET m == FullMatches(ir.raw, last.pkt)
        IN  IF m = {}
            THEN last.rule_id = None /\ last.target = ir.default_target
            ELSE last.rule_id = Some(SetMin(m))

C7_NeverPanics == last.outcome # "panic"

\* ------------------------------------------------------------------ claims about the bucket

\* the bucket a rate-limited call charged, before and after the call
LastRateId == TargetOf(last.rule_id).rate_id
Charged == last.outcome = "ok" /\ TargetOf(last.rule_id).kind = "RateLimit"
PreBucket == last.pre[LastRateId + 1]
PostBucket == last.post[LastRateId + 1]

\* the accumulator as the access's window check leaves it: the value bytes() returns
Accumulated == Bucket_bytes(PreBucket, last.at).bytes

\* C2: a charge succeeds if and only if the accumulator plus the size is strictly below
\* the limit; when they are equal the charge fails.
C2_StrictlyBelowLimit ==
    Charged => (last.accept <=> Accumulated + last.len < PreBucket.limit)

\* C2 witness: a charge that would land exactly on the limit, on a non-empty accumulator,
\* is refused.
C2_Witness ==
    /\ Charged
    /\ Accumulated > 0
    /\ Accumulated + last.len = PreBucket.limit
    /\ ~last.accept

\* C3 as stated: after a successful charge the accumulator is exactly the size above its
\* value before the call, and after a refused one it is what it was before the call.
C3_AsStated ==
    Charged =>
        PostBucket.bytes = IF last.accept THEN PreBucket.bytes + last.len ELSE PreBucket.bytes

\* C3 amended: after a successful charge the accumulator is exactly the size above the
\* value the access's window check left (0 when the check reset it), and after a refused
\* one it is that value.
C3_ChargeCommitsExactly ==
    Charged =>
        /\ PostBucket.bytes = IF last.accept THEN Accumulated + last.len ELSE Accumulated
        /\ PostBucket.limit = PreBucket.limit

\* C3 witness: a charge accepted on an access whose window check reset a non-empty
\* accumulator.
C3_Witness ==
    /\ Charged
    /\ last.accept
    /\ PreBucket.bytes > 0
    /\ Accumulated = 0
    /\ PostBucket.bytes = last.len

\* C4: an access resets the accumulator and restarts the window exactly when now is
\* later than window_start + 500 ms; inside the window both are carried over.
C4_ResetsOnlyAfterWindow ==
    Charged =>
        LET carried == IF last.at > PreBucket.timestamp + PERIOD
                       THEN [PreBucket EXCEPT !.bytes = 0, !.timestamp = last.at]
                       ELSE PreBucket
        IN  /\ PostBucket.timestamp = carried.timestamp
            /\ PostBucket.bytes = carried.bytes + (IF last.accept THEN last.len ELSE 0)

\* C5: with a limit of 1000, three 400-byte calls inside the window that began when the
\* bucket was created (at 0) return true, true, false, and a further 400-byte call made
\* more than 500 ms after that window began returns true.
C5_TrueTrueFalseTrue ==
    ( /\ Len(hist) >= 3
      /\ rate_state[1].limit = 1000
      /\ \A i \in 1..3 : hist[i].len = 400 /\ hist[i].at <= PERIOD )
    => /\ hist[1].accept
       /\ hist[2].accept
       /\ ~hist[3].accept
       /\ (Len(hist) >= 4 /\ hist[4].len = 400 /\ hist[4].at > PERIOD) => hist[4].accept

\* ------------------------------------------------------------------ SpecExample: the five-rule policy

Ip1111 == V4(1, 1, 1, 1)
Ip2223 == V4(2, 2, 2, 3)
Ip9999 == V4(9, 9, 9, 9)
Ip0000 == V4(0, 0, 0, 0)

\* raw_rules of test::rules_indexing, default drop, no rate-limit rule
ExamplePolicy ==
    Policy(Drop,
           << Rule(Some("Input"), None, None, None, Some(<<Ip1111, 32>>), Accept),
              Rule(Some("Input"), Some("Tcp"), None, None, Some(<<Ip1111, 32>>), Accept),
              Rule(Some("Input"), Some("Tcp"), None, None, Some(<<Ip2222, 30>>), Accept),
              Rule(Some("Input"), None, Some(""), Some(<<10, 200>>), Some(<<Ip2222, 32>>), Accept),
              Rule(Some("Input"), None, Some(""), Some(<<100, 100>>), Some(<<Ip0000, 0>>), Accept) >>,
           <<>>)

\* the packets of the end-to-end scenarios, each with its payload length
ExampleCalls ==
    { <<Packet("Input", "Tcp", SockAddr(Ip2222, 100), ""), 64>>,
      <<Packet("Input", "Tcp", SockAddr(Ip1111, 53), "x"), 100>>,
      <<Packet("Output", "Tcp", SockAddr(Ip1111, 53), "x"), 100>>,
      <<Packet("Input", "Udp", SockAddr(Ip2223, 100), ""), 10>>,
      <<Packet("Input", "Tcp", SockAddr(Ip9999, 80), "x"), 10>> }

InitExample ==
    /\ InitDaemon(ExamplePolicy, 0)
    /\ InitBackend

ClassifyExample ==
    /\ Len(hist) < MaxCalls
    /\ \E c \in ExampleCalls : IsAcceptable(c[1], c[2])

NextExample == ClassifyExample

SpecExample == InitExample /\ [][NextExample]_vars

TcpTo2222 == Packet("Input", "Tcp", SockAddr(Ip2222, 100), "")
UdpTo2223 == Packet("Input", "Udp", SockAddr(Ip2223, 100), "")

C9_Udp2223IsRule4 ==
    \A i \in 1..Len(hist) :
        hist[i].pkt = UdpTo2223 =>
            /\ hist[i].outcome = "ok"
            /\ hist[i].rule_id = Some(4)
            /\ hist[i].accept

\* ------------------------------------------------------------------ the front-end: policy ingress

MaxQRules == 2

\* QRule::default(): what new_rule pushes
QRule_default ==
    [device |-> 0, proto |-> 0, exe |-> "", port_begin |-> 0, port_end |-> 0,
     addr |-> "", mask |-> 0, target |-> 0]

\* the values an edit gives to a field of a QRule
QFieldValues ==
    [port_begin |-> {0, 10, 20}, port_end |-> {0, 10},
     addr |-> {"", "2.2.2.2", "bogus"}, mask |-> {0, 33}]

\* str::parse::<IpAddr>() on the address texts above: Some(address), or None for an
\* AddrParseError
ParseIpAddr(text) ==
    CASE text = "2.2.2.2" -> Some(Ip2222)
      [] text = "1.1.1.1" -> Some(Ip1111)
      [] OTHER -> None

\* TryFrom<&QRule> for Rule: [ok |-> TRUE, rule |-> the Rule] or [ok |-> FALSE, err |-> ...]
Rule_try_from(qrule) ==
    LET device == CASE qrule.device = 0 -> None
                    [] qrule.device = 1 -> Some("Input")
                    [] qrule.device = 2 -> Some("Output")
        proto == CASE qrule.proto = 0 -> None
                   [] qrule.proto = 1 -> Some("Tcp")
                   [] qrule.proto = 2 -> Some("Udp")
                   [] qrule.proto = 3 -> Some("UdpLite")
        exe == IF qrule.exe # "" THEN Some(qrule.exe) ELSE None
        begin == qrule.port_begin
        end == qrule.port_end
        port == CASE begin = 0 /\ end = 0 -> None
                  [] begin # 0 /\ end = 0 -> Some(<<begin, begin>>)
                  [] OTHER -> Some(<<begin, end>>)
        target == CASE qrule.target = 0 -> Accept
                    [] qrule.target = 1 -> Drop
                    [] OTHER -> RateLimit(qrule.target - 2)
    IN  IF end # 0 /\ begin > end
        THEN [ok |-> FALSE, err |-> "PortRange"]
        ELSE IF qrule.addr # "" /\ ParseIpAddr(qrule.addr) = None
        THEN [ok |-> FALSE, err |-> "Address"]
        ELSE [ok |-> TRUE,
              rule |-> Rule(device, proto, exe, port,
                            IF qrule.addr = "" THEN None
                            ELSE Some(<<Unwrap(ParseIpAddr(qrule.addr)), qrule.mask>>),
                            target)]

\* the match on self.default_target in apply_rules
DefaultTargetOf(n) ==
    CASE n = 0 -> Accept
      [] n = 1 -> Drop
      [] OTHER -> RateLimit(n - 2)

\* Backend::new_rule
NewRule ==
    /\ Len(qrules) < MaxQRules
    /\ qrules' = Append(qrules, QRule_default)
    /\ UNCHANGED <<ir, rate_state, cache, now, last, hist, q_default, q_rates, sent, apply_error,
                   diag, conv, conc>>

\* Backend::remove_rule(i)
RemoveRule ==
    /\ \E i \in 1..Len(qrules) :
          qrules' = [j \in 1..(Len(qrules) - 1) |-> IF j < i THEN qrules[j] ELSE qrules[j + 1]]
    /\ UNCHANGED <<ir, rate_state, cache, now, last, hist, q_default, q_rates, sent, apply_error,
                   diag, conv, conc>>

\* MutListItem::set on rule i: one field takes a new value
SetField ==
    /\ \E i \in 1..Len(qrules), f \in DOMAIN QFieldValues :
          \E v \in QFieldValues[f] :
              /\ qrules[i][f] # v
              /\ qrules' = [qrules EXCEPT ![i][f] = v]
    /\ UNCHANGED <<ir, rate_state, cache, now, last, hist, q_default, q_rates, sent, apply_error,
                   diag, conv, conc>>

\* the daemon's side of set_rules: IndexedRules::from(rules) replaces the table in force
SetRules(rules) ==
    /\ ir' = IndexedRules_new(rules.default_target, rules.rules)
    /\ rate_state' = RateState_new(rules.rate_rules, now)
    /\ cache' = <<>>

\* Backend::apply_rules with the client connected: every QRule is converted; the first
\* failure emits apply_rules_error and returns, otherwise the Rules record goes to the
\* daemon through set_rules
ApplyRules ==
    LET converted == [i \in 1..Len(qrules) |-> Rule_try_from(qrules[i])]
    IN  IF \E i \in 1..Len(qrules) : ~converted[i].ok
        THEN /\ apply_error' = TRUE
             /\ UNCHANGED <<ir, rate_state, cache, now, last, hist, qrules, q_default,
                            q_rates, sent, diag, conv, conc>>
        ELSE LET rules == Policy(DefaultTargetOf(q_default),
                                 [i \in 1..Len(qrules) |-> converted[i].rule],
                                 q_rates)
             IN  /\ sent' = Some(rules)
                 /\ SetRules(rules)
                 /\ apply_error' = FALSE
                 /\ UNCHANGED <<now, last, hist, qrules, q_default, q_rates, diag, conv, conc>>

InitGui ==
    /\ InitDaemon(Policy(Accept, <<>>, <<>>), 0)
    /\ InitBackend

NextGui == NewRule \/ RemoveRule \/ SetField \/ ApplyRules

SpecGui == InitGui /\ [][NextGui]_vars

\* a QRule whose port range is inverted (an end of 0 stands for "no end": the range is
\* the single port) or whose mask is too long for its address family
InvalidQRule(qrule) ==
    \/ qrule.port_end # 0 /\ qrule.port_begin > qrule.port_end
    \/ /\ qrule.addr # ""
       /\ ParseIpAddr(qrule.addr) # None
       /\ qrule.mask > (IF Unwrap(ParseIpAddr(qrule.addr)).fam = "V4" THEN 32 ELSE 128)

\* C10: while the edited rules contain a rule with an inverted port range or an
\* out-of-range mask, no step sends a policy to the daemon or replaces the policy in
\* force.
C10_InvalidPolicyRejected ==
    [][(\E i \in 1..Len(qrules) : InvalidQRule(qrules[i]))
          => (sent' = sent /\ ir' = ir)]_vars

\* ------------------------------------------------------------------ netlink.rs: Port and Ipv4or6

\* u8: the width of a byte
U8 == 256

\* From<u16> for Port with the two bytes swapped (low byte first)
Port_from_u16_low_first(port) == <<port % U8, (port \div U8) % U8>>

\* From<u16> for Port: Port([(port >> 8) as u8, port as u8])
Port_from_u16(port) == <<(port \div U8) % U8, port % U8>>

\* From<Port> for u16: ((port.0[0] as u16) << 8) | (port.0[1] as u16); the shifted byte
\* has its low eight bits clear, so the bitwise or is a sum
u16_from_Port(port) == ((port[1] * U8) % U16) + port[2]

\* PartialEq<u16> for Port
Port_eq_u16(port, other) == u16_from_Port(port) = other

\* From<Ipv4Addr> for Ipv4or6: the union is written through its 4-byte field; its other
\* 12 bytes are not written and hold uninit, whatever the memory held
Ipv4or6_from_Ipv4Addr(addr, uninit) == addr.oct \o uninit

\* From<Ipv4or6> for Ipv4Addr: reads the 4-byte field
Ipv4Addr_from_Ipv4or6(u) == V4(u[1], u[2], u[3], u[4])

\* Ipv6Addr::segments: eight u16, each from two octets in network byte order
Segments(addr) == [i \in 1..8 |-> addr.oct[2 * i - 1] * U8 + addr.oct[2 * i]]

\* From<Ipv6Addr> for Ipv4or6: l(v) and r(v) of each segment in turn
Ipv4or6_from_Ipv6Addr(addr) ==
    LET v6 == Segments(addr)
    IN  [i \in 1..16 |-> IF i % 2 = 1 THEN (v6[(i + 1) \div 2] \div U8) % U8
                         ELSE v6[i \div 2] % U8]

\* From<Ipv4or6> for Ipv6Addr: reads the 16-byte field
Ipv6Addr_from_Ipv4or6(u) == V6([i \in 1..16 |-> u[i]])

\* From<IpAddr> for Ipv4or6
Ipv4or6_from_IpAddr(addr, uninit) ==
    IF addr.fam = "V4" THEN Ipv4or6_from_Ipv4Addr(addr, uninit)
    ELSE Ipv4or6_from_Ipv6Addr(addr)

\* PartialEq<IpAddr> for Ipv4or6: the family of the other side picks the field read
Ipv4or6_eq_IpAddr(u, other) ==
    IF other.fam = "V4" THEN Ipv4Addr_from_Ipv4or6(u) = other
    ELSE Ipv6Addr_from_Ipv4or6(u) = other

Zeros(n) == [i \in 1..n |-> 0]

\* what the 12 unwritten bytes of a union written through v4 may hold
UninitTails == {Zeros(12), [i \in 1..12 |-> 170]}

\* ------------------------------------------------------------------ SockDiag::query

\* InetDiagMsg as the kernel lays it out: ports high byte first, addresses in network
\* byte order in 16 bytes, a v4 address in the first 4 with the rest zero
WirePort(p) == <<p \div U8, p % U8>>
WireAddr(ip) == IF ip.fam = "V4" THEN ip.oct \o Zeros(12) ELSE ip.oct
InetDiagMsg(src, dst, inode, uid) ==
    [id |-> [idiag_sport |-> WirePort(src.port), idiag_dport |-> WirePort(dst.port),
             idiag_src |-> WireAddr(src.ip), idiag_dst |-> WireAddr(dst.ip)],
     idiag_uid |-> uid, idiag_inode |-> inode]

\* the InetDiagReqV2 that query builds
InetDiagReqV2(protocol, local_address, remote_address, uninit_src, uninit_dst) ==
    [sdiag_family |-> IF local_address.ip.fam = "V4" THEN "AF_INET" ELSE "AF_INET6",
     sdiag_protocol |-> protocol,
     id |-> [idiag_sport |-> Port_from_u16(local_address.port),
             idiag_dport |-> Port_from_u16(remote_address.port),
             idiag_src |-> Ipv4or6_from_IpAddr(local_address.ip, uninit_src),
             idiag_dst |-> Ipv4or6_from_IpAddr(remote_address.ip, uninit_dst)],
     flags |-> IF protocol # "Tcp" THEN {"NLM_F_REQUEST", "NLM_F_MATCH"}
               ELSE {"NLM_F_REQUEST"}]

\* the assertion at the head of query, with the comparison left out
FamiliesAgree_unchecked(local_address, remote_address) == TRUE

\* the assertion at the head of query: assert_eq!(local.is_ipv4(), remote.is_ipv4())
FamiliesAgree(local_address, remote_address) ==
    (local_address.ip.fam = "V4") = (remote_address.ip.fam = "V4")

\* the body of the response loop, keeping the first message that passes the filter
KeepMsg_first(r, diag_msg, local_address, remote_address) ==
    IF /\ r = None
       /\ Ipv4or6_eq_IpAddr(diag_msg.id.idiag_src, local_address.ip)
       /\ Port_eq_u16(diag_msg.id.idiag_sport, local_address.port)
       /\ Ipv4or6_eq_IpAddr(diag_msg.id.idiag_dst, remote_address.ip)
       /\ Port_eq_u16(diag_msg.id.idiag_dport, remote_address.port)
       /\ diag_msg.idiag_inode # 0
    THEN Some(diag_msg)
    ELSE r

\* the body of the response loop: r after one message
KeepMsg(r, diag_msg, local_address, remote_address) ==
    IF /\ Ipv4or6_eq_IpAddr(diag_msg.id.idiag_src, local_address.ip)
       /\ Port_eq_u16(diag_msg.id.idiag_sport, local_address.port)
       /\ Ipv4or6_eq_IpAddr(diag_msg.id.idiag_dst, remote_address.ip)
       /\ Port_eq_u16(diag_msg.id.idiag_dport, remote_address.port)
       /\ diag_msg.idiag_inode # 0
    THEN Some(diag_msg)
    ELSE r

MaxMsgs == 3

Ip6One == V6(Zeros(15) \o <<1>>)

DiagLocals == {SockAddr(Ip2222, 100), SockAddr(Ip2221, 100), SockAddr(Ip6One, 100)}
DiagRemotes == {SockAddr(Ip2223, 443), SockAddr(Ip6One, 443)}

\* what the kernel may answer: sockets of either local address and port, towards
\* either remote port, with an inode or without one
DiagMsgs ==
    { InetDiagMsg(SockAddr(ip, sport), SockAddr(Ip2223, 443), inode, 1000) :
        ip \in {Ip2222, Ip2221}, sport \in {100, 356}, inode \in {0, 7, 9} }

\* the call of SockDiag::query up to the first response: the assertion, the request,
\* the send, which the socket may refuse
Query ==
    /\ diag.pc = "idle"
    /\ \E protocol \in {"Tcp", "Udp"}, local_address \in DiagLocals,
          remote_address \in DiagRemotes :
          LET args == [protocol |-> protocol, local_address |-> local_address,
                       remote_address |-> remote_address]
          IN  IF ~FamiliesAgree(local_address, remote_address)
              THEN diag' = [pc |-> "done", args |-> args, sent |-> None,
                            responses |-> <<>>, seen |-> <<>>, r |-> None,
                            ret |-> [kind |-> "panic"]]
              ELSE \/ diag' = [pc |-> "done", args |-> args, sent |-> None,
                               responses |-> <<>>, seen |-> <<>>, r |-> None,
                               ret |-> [kind |-> "Err", error |-> "Io"]]
                   \/ \E uninit_src, uninit_dst \in UninitTails,
                         responses \in SeqsUpTo(DiagMsgs, MaxMsgs) :
                         diag' = [pc |-> "reading", args |-> args,
                                  sent |-> Some(InetDiagReqV2(protocol, local_address,
                                                              remote_address, uninit_src,
                                                              uninit_dst)),
                                  responses |-> responses, seen |-> <<>>, r |-> None,
                                  ret |-> [kind |-> "none"]]
    /\ UNCHANGED <<ir, rate_state, cache, now, last, hist, qrules, q_default, q_rates, sent,
                   apply_error, conv, conc>>

\* one turn of the loop over the responses
ReadMsg ==
    /\ diag.pc = "reading"
    /\ diag.responses # <<>>
    /\ diag' = [diag EXCEPT
                   !.r = KeepMsg(diag.r, Head(diag.responses), diag.args.local_address,
                                 diag.args.remote_address),
                   !.seen = Append(diag.seen, Head(diag.responses)),
                   !.responses = Tail(diag.responses)]
    /\ UNCHANGED <<ir, rate_state, cache, now, last, hist, qrules, q_default, q_rates, sent,
                   apply_error, conv, conc>>

\* r.ok_or_else(NotFound) once the responses are exhausted
Finish ==
    /\ diag.pc = "reading"
    /\ diag.responses = <<>>
    /\ diag' = [diag EXCEPT
                   !.pc = "done",
                   !.ret = IF IsSome(diag.r) THEN [kind |-> "Ok", msg |-> Unwrap(diag.r)]
                           ELSE [kind |-> "Err", error |-> "NotFound"]]
    /\ UNCHANGED <<ir, rate_state, cache, now, last, hist, qrules, q_default, q_rates, sent,
                   apply_error, conv, conc>>

InitDiag ==
    /\ InitDaemon(Policy(Accept, <<>>, <<>>), 0)
    /\ InitBackend

NextDiag == Query \/ ReadMsg \/ Finish

SpecDiag == InitDiag /\ [][NextDiag]_vars

\* the positions of the messages read whose addresses and ports are the queried ones
\* and whose inode is not 0
Satisfying ==
    {i \in 1..Len(diag.seen) :
        /\ diag.seen[i].id.idiag_src = WireAddr(diag.args.local_address.ip)
        /\ diag.seen[i].id.idiag_sport = WirePort(diag.args.local_address.port)
        /\ diag.seen[i].id.idiag_dst = WireAddr(diag.args.remote_address.ip)
        /\ diag.seen[i].id.idiag_dport = WirePort(diag.args.remote_address.port)
        /\ diag.seen[i].idiag_inode # 0}

SetMax(S) == CHOOSE i \in S : \A j \in S : i >= j

MixedFamilies ==
    /\ diag.pc # "idle"
    /\ diag.args.local_address.ip.fam # diag.args.remote_address.ip.fam

\* C12 as stated: a query whose local and remote address are of different families
\* returns an input-validation error to the caller and sends no request.
C12_AsStated ==
    MixedFamilies =>
        /\ diag.pc = "done"
        /\ diag.ret = [kind |-> "Err", error |-> "InvalidInput"]
        /\ diag.sent = None

\* C12: a query whose local and remote address are of different families panics on
\* the assertion at its head: it returns nothing to the caller, and no request is
\* sent.
C12_MixedFamiliesPanic ==
    MixedFamilies =>
        /\ diag.pc = "done"
        /\ diag.ret = [kind |-> "panic"]
        /\ diag.sent = None

C12_Witness ==
    /\ MixedFamilies
    /\ diag.args.local_address.ip.fam = "V4"
    /\ diag.ret.kind = "panic"

\* ------------------------------------------------------------------ SpecConv: the conversions

V4Octets == {0, 1, 127, 255}
V4Addrs == {V4(a, b, c, d) : a, b, c, d \in V4Octets}

\* ::1, 2001:db8::ff00:42:8329, the all-ones address and one with 16 different octets
V6Addrs ==
    { Ip6One,
      V6(<<32, 1, 13, 184, 0, 0, 0, 0, 0, 0, 255, 0, 0, 66, 131, 41>>),
      V6([i \in 1..16 |-> 255]),
      V6([i \in 1..16 |-> 16 * i - 1]) }

\* u16 -> Port -> u16
ConvertPort ==
    /\ conv.op = "none"
    /\ \E p \in 0..(U16 - 1) :
          conv' = [op |-> "port", in |-> p, mid |-> Port_from_u16(p),
                   out |-> u16_from_Port(Port_from_u16(p))]
    /\ UNCHANGED <<ir, rate_state, cache, now, last, hist, qrules, q_default, q_rates, sent,
                   apply_error, diag, conc>>

\* Ipv4Addr -> Ipv4or6 -> Ipv4Addr
ConvertV4 ==
    /\ conv.op = "none"
    /\ \E a \in V4Addrs, uninit \in UninitTails :
          conv' = [op |-> "v4", in |-> a, mid |-> Ipv4or6_from_Ipv4Addr(a, uninit),
                   out |-> Ipv4Addr_from_Ipv4or6(Ipv4or6_from_Ipv4Addr(a, uninit))]
    /\ UNCHANGED <<ir, rate_state, cache, now, last, hist, qrules, q_default, q_rates, sent,
                   apply_error, diag, conc>>

\* Ipv4or6 -> Ipv4Addr -> Ipv4or6, from a v4 address in wire layout
BackV4 ==
    /\ conv.op = "none"
    /\ \E a \in V4Addrs, uninit \in UninitTails :
          conv' = [op |-> "v4_back", in |-> WireAddr(a),
                   mid |-> Ipv4Addr_from_Ipv4or6(WireAddr(a)),
                   out |-> Ipv4or6_from_Ipv4Addr(Ipv4Addr_from_Ipv4or6(WireAddr(a)), uninit)]
    /\ UNCHANGED <<ir, rate_state, cache, now, last, hist, qrules, q_default, q_rates, sent,
                   apply_error, diag, conc>>

\* Ipv6Addr -> Ipv4or6 -> Ipv6Addr
ConvertV6 ==
    /\ conv.op = "none"
    /\ \E a \in V6Addrs :
          conv' = [op |-> "v6", in |-> a, mid |-> Ipv4or6_from_Ipv6Addr(a),
                   out |-> Ipv6Addr_from_Ipv4or6(Ipv4or6_from_Ipv6Addr(a))]
    /\ UNCHANGED <<ir, rate_state, cache, now, last, hist, qrules, q_default, q_rates, sent,
                   apply_error, diag, conc>>

\* Ipv4or6 -> Ipv6Addr -> Ipv4or6, from a v6 address in wire layout
BackV6 ==
    /\ conv.op = "none"
    /\ \E a \in V6Addrs :
          conv' = [op |-> "v6_back", in |-> WireAddr(a),
                   mid |-> Ipv6Addr_from_Ipv4or6(WireAddr(a)),
                   out |-> Ipv4or6_from_Ipv6Addr(Ipv6Addr_from_Ipv4or6(WireAddr(a)))]
    /\ UNCHANGED <<ir, rate_state, cache, now, last, hist, qrules, q_default, q_rates, sent,
                   apply_error, diag, conc>>

InitConv ==
    /\ InitDaemon(Policy(Accept, <<>>, <<>>), 0)
    /\ InitBackend

NextConv == ConvertPort \/ ConvertV4 \/ BackV4 \/ ConvertV6 \/ BackV6

SpecConv == InitConv /\ [][NextConv]_vars

\* C14: for every u16 p, the Port made from p holds the high byte of p first and the
\* low byte second, and the u16 made from that Port is p.
C14_PortRoundTrip ==
    conv.op = "port" =>
        /\ conv.mid = WirePort(conv.in)
        /\ conv.out = conv.in

\* the port of the repository's test, 1234 = 4 * 256 + 210
C14_Witness ==
    /\ conv.op = "port"
    /\ conv.in = 1234
    /\ conv.mid = <<4, 210>>
    /\ conv.out = 1234

\* C15: each of the four round trips gives back what went in: Ipv4Addr -> Ipv4or6 ->
\* Ipv4Addr for every v4 address, Ipv4or6 -> Ipv4Addr -> Ipv4or6 for every v4 address
\* in its 16 bytes (the address in the first 4, the other 12 zero), and both for
\* every v6 address in its 16 bytes in network byte order.
C15_RoundTrips ==
    conv.op \in {"v4", "v4_back", "v6", "v6_back"} => conv.out = conv.in

\* ------------------------------------------------------------------ SpecConc: is_acceptable step by step

\* IndexedRules::is_acceptable called from two threads on one IndexedRules, each call
\* advancing one statement at a time.  The only guard of cache is the borrow flag of
\* its RefCell: borrow_mut reads the flag, panics (BorrowMutError) when it is set and
\* sets it otherwise, and the guard it returns clears it when is_acceptable returns.
\* The flag is a plain Cell, so between threads its read and its write are two steps.

ConcMaxCalls == 3

ConcPolicy ==
    Policy(Drop,
           << Rule(Some("Input"), None, None, None, Some(<<Ip2222, 32>>), RateLimit(0)),
              Rule(None, None, None, None, None, Accept) >>,
           <<1000>>)

ConcPackets ==
    { Packet("Input", "Tcp", SockAddr(ip, 100), "a") : ip \in {Ip2222, Ip2221} }

ConcLens == {400}

Running == {t \in Threads : conc.th[t].pc \notin {"idle", "panicked"}}

SetThread(t, th) == conc' = [conc EXCEPT !.th[t] = th]

ConcFrame == UNCHANGED <<ir, now, last, qrules, q_default, q_rates, sent, apply_error, diag, conv>>

\* thread t enters is_acceptable and hashes the tuple
Call(t) ==
    /\ conc.th[t].pc = "idle"
    /\ Len(hist) + Cardinality(Running) < ConcMaxCalls
    /\ \E pkt \in ConcPackets, len \in ConcLens :
          SetThread(t, [IdleThread EXCEPT !.pc = "borrow", !.pkt = pkt, !.len = len])
    /\ ConcFrame
    /\ UNCHANGED <<cache, rate_state, hist>>

\* self.cache.borrow_mut(), the read of the flag
BorrowCheck(t) ==
    /\ conc.th[t].pc = "borrow"
    /\ SetThread(t, [conc.th[t] EXCEPT !.pc = IF conc.borrowed THEN "panicked" ELSE "flag"])
    /\ ConcFrame
    /\ UNCHANGED <<cache, rate_state, hist>>

\* self.cache.borrow_mut(), the write of the flag
BorrowSet(t) ==
    /\ conc.th[t].pc = "flag"
    /\ conc' = [conc EXCEPT !.borrowed = TRUE, !.th[t].pc = "get"]
    /\ ConcFrame
    /\ UNCHANGED <<cache, rate_state, hist>>

\* cache.get(&lru_index).cloned()
CacheGet(t) ==
    /\ conc.th[t].pc = "get"
    /\ LET key == lru_index(conc.th[t].pkt)
       IN  IF CacheHas(cache, key)
           THEN /\ SetThread(t, [conc.th[t] EXCEPT !.pc = "charge",
                                                   !.cls = CacheValue(cache, key),
                                                   !.steps = Append(@, "read")])
                /\ cache' = CacheTouch(cache, key)
           ELSE /\ SetThread(t, [conc.th[t] EXCEPT !.pc = "classify",
                                                   !.steps = Append(@, "read")])
                /\ cache' = cache
    /\ ConcFrame
    /\ UNCHANGED <<rate_state, hist>>

\* the miss path: self.match_target(device, protocol, addr, exe)
MatchTarget(t) ==
    /\ conc.th[t].pc = "classify"
    /\ LET pkt == conc.th[t].pkt
       IN  SetThread(t, [conc.th[t] EXCEPT
                            !.pc = "insert",
                            !.cls = match_target(ir, pkt.device, pkt.protocol, pkt.addr,
                                                 pkt.exe),
                            !.steps = Append(@, "classify")])
    /\ ConcFrame
    /\ UNCHANGED <<cache, rate_state, hist>>

\* the miss path: cache.insert(lru_index, result)
Insert(t) ==
    /\ conc.th[t].pc = "insert"
    /\ cache' = CacheInsert(cache, lru_index(conc.th[t].pkt), conc.th[t].cls)
    /\ SetThread(t, [conc.th[t] EXCEPT !.pc = "charge", !.steps = Append(@, "insert")])
    /\ ConcFrame
    /\ UNCHANGED <<rate_state, hist>>

\* let accept = match target { ... }
Account(t) ==
    /\ conc.th[t].pc = "charge"
    /\ LET target == conc.th[t].cls.target
           charged == Bucket_stuff(rate_state[target.rate_id + 1], now, conc.th[t].len)
       IN  /\ rate_state' = IF target.kind = "RateLimit"
                            THEN [rate_state EXCEPT ![target.rate_id + 1] = charged.bucket]
                            ELSE rate_state
           /\ SetThread(t, [conc.th[t] EXCEPT
                               !.pc = "return",
                               !.accept = CASE target.kind = "Accept" -> TRUE
                                            [] target.kind = "Drop" -> FALSE
                                            [] OTHER -> charged.ret,
                               !.steps = Append(@, "charge")])
    /\ ConcFrame
    /\ UNCHANGED <<cache, hist>>

\* (rule_id, accept) goes back to the caller; the guard of cache is dropped
Return(t) ==
    /\ conc.th[t].pc = "return"
    /\ conc' = [conc EXCEPT !.borrowed = FALSE, !.th[t] = IdleThread]
    /\ hist' = Append(hist, [outcome |-> "ok", pkt |-> conc.th[t].pkt, len |-> conc.th[t].len,
                             at |-> now, target |-> conc.th[t].cls.target,
                             rule_id |-> conc.th[t].cls.rule_id,
                             accept |-> conc.th[t].accept])
    /\ ConcFrame
    /\ UNCHANGED <<cache, rate_state>>

InitConc ==
    /\ InitDaemon(ConcPolicy, 0)
    /\ InitBackend

NextConc ==
    \E t \in Threads :
        \/ Call(t)
        \/ BorrowCheck(t)
        \/ BorrowSet(t)
        \/ CacheGet(t)
        \/ MatchTarget(t)
        \/ Insert(t)
        \/ Account(t)
        \/ Return(t)

SpecConc == InitConc /\ [][NextConc]_vars

IsPrefix(s, t) == Len(s) <= Len(t) /\ \A i \in 1..Len(s) : s[i] = t[i]

\* the threads that hold the guard of cache: past borrow_mut and not yet returned
InsideCache == {t \in Threads : conc.th[t].pc \in {"get", "classify", "insert", "charge", "return"}}

\* C13: two threads may call is_acceptable on one IndexedRules with no lock around the
\* calls: no call fails, each call goes through cache read, classification on a miss,
\* cache insert, rate charge in that order, and no call reads or writes the cache or
\* a bucket while another call is between its cache read and its return.
C13_SafeWithoutExternalLock ==
    /\ \A t \in Threads : conc.th[t].pc # "panicked"
    /\ \A t \in Threads :
          \/ IsPrefix(conc.th[t].steps, <<"read", "classify", "insert", "charge">>)
          \/ IsPrefix(conc.th[t].steps, <<"read", "charge">>)
    /\ Cardinality(InsideCache) <= 1

\* ------------------------------------------------------------------ claims about the candidates

\* C16: the candidate pair match_target selects for the packet of a call contains
\* the index of every rule that passes the packet on all five filters, also the
\* rules whose subnet covers the address with a shorter mask than the longest
\* matching prefix.
C16_CandidatesCoverMatches ==
    last.outcome # "none" =>
        FullMatches(ir.raw, last.pkt) \subseteq
            SeqRange(Candidates(ir, last.pkt.device, last.pkt.protocol, last.pkt.addr,
                                last.pkt.exe))

\* ------------------------------------------------------------------ SpecCharge: two buckets

ChargeMaxCalls == 3

\* 2.2.2.2 from the input device is limited by bucket 0, other tcp traffic by bucket
\* 1, 2.2.2.1 is accepted, everything else dropped
ChargePolicy ==
    Policy(Drop,
           << Rule(Some("Input"), None, None, None, Some(<<Ip2222, 32>>), RateLimit(0)),
              Rule(None, None, None, None, Some(<<Ip2221, 32>>), Accept),
              Rule(None, Some("Tcp"), None, None, None, RateLimit(1)) >>,
           <<500, 1000>>)

ChargePackets ==
    { Packet("Input", "Udp", SockAddr(Ip2222, 100), "a"),
      Packet("Input", "Tcp", SockAddr(Ip2223, 100), "a"),
      Packet("Input", "Udp", SockAddr(Ip2221, 100), "a"),
      Packet("Input", "Udp", SockAddr(Ip2223, 100), "a") }

ChargeLens == {300}

InitCharge ==
    /\ InitDaemon(ChargePolicy, 0)
    /\ InitBackend

ChargeCall ==
    /\ Len(hist) < ChargeMaxCalls
    /\ \E pkt \in ChargePackets, len \in ChargeLens : IsAcceptable(pkt, len)

NextCharge == ChargeCall \/ Tick

SpecCharge == InitCharge /\ [][NextCharge]_vars

\* C17: a call whose classified target is rate-limit(b) leaves bucket b as one charge
\* of the call's length leaves it, on a cache hit as on a miss, and returns that
\* charge's answer; every other bucket is as it was; a call whose target is accept
\* or drop leaves every bucket as it was.
C17_ChargesOnlyItsBucket ==
    last.outcome = "ok" =>
        /\ Len(last.post) = Len(last.pre)
        /\ \A i \in 1..Len(last.pre) :
              IF last.target.kind = "RateLimit" /\ i = last.target.rate_id + 1
              THEN /\ last.post[i] = Bucket_stuff(last.pre[i], last.at, last.len).bucket
                   /\ last.accept = Bucket_stuff(last.pre[i], last.at, last.len).ret
              ELSE last.post[i] = last.pre[i]

\* a cache hit that added its bytes to bucket 1, which had bytes already, while
\* bucket 0 had bytes of its own
C17_Witness ==
    /\ last.outcome = "ok"
    /\ last.hit
    /\ last.target = RateLimit(1)
    /\ last.pre[2].bytes > 0
    /\ last.post[2].bytes = last.pre[2].bytes + last.len
    /\ last.pre[1].bytes > 0
    /\ last.post[1] = last.pre[1]

\* ------------------------------------------------------------------ SpecIndex: what new builds

IndexMaxRules == 2

\* device, protocol and exe of a rule, each given or left open
IndexWho ==
    { <<None, None, None>>, <<Some("Input"), Some("Tcp"), Some("a")>>,
      <<Some("Input"), None, Some("a")>>, <<None, Some("Tcp"), None>> }

\* the second range ends at the last port
IndexPorts == {None, Some(<<100, 200>>), Some(<<100, U16 - 1>>)}

\* masking 2.2.2.2 to 30 bits changes it
IndexSubnets == {None, Some(<<Ip2222, 30>>), Some(<<Ip6One, 128>>)}

IndexRules ==
    { Rule(who[1], who[2], who[3], port, subnet, Accept) :
        who \in IndexWho, port \in IndexPorts, subnet \in IndexSubnets }

IndexPolicies == { Policy(Drop, rules, <<>>) : rules \in SeqsUpTo(IndexRules, IndexMaxRules) }

IndexPackets ==
    { Packet("Input", "Tcp", SockAddr(Ip2222, 150), "a"),
      Packet("Input", "Tcp", SockAddr(Ip6One, U16 - 1), "a") }

\* end + 1 of some rule does not fit u16
NewOverflows(rules) ==
    \E i \in 1..Len(rules) : IsSome(rules[i].port) /\ Unwrap(rules[i].port)[2] + 1 >= U16

\* no policy has been handed over yet
InitIndex ==
    /\ InitDaemon(Policy(Drop, <<>>, <<>>), 0)
    /\ InitBackend

\* IndexedRules::new in either build: with overflow checks (debug) end + 1 panics when
\* it does not fit and nothing is built; without them (release) it wraps
New ==
    /\ last.outcome = "none"
    /\ \E policy \in IndexPolicies, overflow_checks \in BOOLEAN :
          IF overflow_checks /\ NewOverflows(policy.rules)
          THEN /\ ir' = EmptyIndexedRules(policy.default_target, policy.rules)
               /\ last' = [outcome |-> "new_panic"]
          ELSE /\ ir' = IndexedRules_new(policy.default_target, policy.rules)
               /\ last' = [outcome |-> "new"]
    /\ rate_state' = <<>>
    /\ cache' = <<>>
    /\ UNCHANGED <<now, hist, qrules, q_default, q_rates, sent, apply_error, diag, conv, conc>>

Lookup ==
    /\ last.outcome = "new"
    /\ \E pkt \in IndexPackets : IsAcceptable(pkt, 400)

NextIndex == New \/ Lookup

SpecIndex == InitIndex /\ [][NextIndex]_vars

Built == last.outcome # "new_panic"

RuleIds == 0..(Len(ir.raw) - 1)

\* how often index stands in a list
Occurrences(list, index) == Cardinality({n \in 1..Len(list) : list[n] = index})

\* the places (key, position) of index in the lists of a map
Places(m, index) ==
    {kn \in UNION {{<<k, n>> : n \in 1..Len(m[k])} : k \in DOMAIN m} : m[kn[1]][kn[2]] = index}

\* index stands once under the key of value and not in the any list, or, with no
\* value, once in the any list and under no key
InOnePlace(m, any, value, index) ==
    IF IsSome(value)
    THEN /\ Cardinality(Places(m, index)) = 1
         /\ \A kn \in Places(m, index) : kn[1] = Unwrap(value)
         /\ Occurrences(any, index) = 0
    ELSE /\ Places(m, index) = {}
         /\ Occurrences(any, index) = 1

\* C18: in every IndexedRules that new built, each rule index stands in one place per
\* field: for device, protocol and exe once under the rule's value or once in the
\* any list; for the port once in the interval tree or once in any_port; for the
\* subnet once in the prefix table of the subnet's family, under the masked prefix
\* and the mask, and in neither any list nor the other table, or, for a rule without
\* subnet, once in any_v4 and once in any_v6 and in no table.
C18_EachIndexInOnePlace ==
    Built =>
        \A i \in RuleIds :
            LET rule == ir.raw[i + 1]
                in_tree == Cardinality({n \in 1..Len(ir.port) : ir.port[n].value = i})
            IN  /\ InOnePlace(ir.device, ir.any_device, rule.device, i)
                /\ InOnePlace(ir.proto, ir.any_proto, rule.proto, i)
                /\ InOnePlace(ir.exe, ir.any_exe, rule.exe, i)
                /\ IF IsSome(rule.port)
                   THEN in_tree = 1 /\ Occurrences(ir.any_port, i) = 0
                   ELSE in_tree = 0 /\ Occurrences(ir.any_port, i) = 1
                /\ IF IsSome(rule.subnet)
                   THEN LET subnet == Unwrap(rule.subnet)[1]
                            mask == Unwrap(rule.subnet)[2]
                            key == Some(<<AddressMask(subnet, mask), mask>>)
                        IN  /\ Occurrences(ir.any_v4, i) = 0
                            /\ Occurrences(ir.any_v6, i) = 0
                            /\ IF subnet.fam = "V4"
                               THEN /\ InOnePlace(ir.v4_table, <<>>, key, i)
                                    /\ Places(ir.v6_table, i) = {}
                               ELSE /\ InOnePlace(ir.v6_table, <<>>, key, i)
                                    /\ Places(ir.v4_table, i) = {}
                   ELSE /\ InOnePlace(ir.v4_table, ir.any_v4, None, i)
                        /\ InOnePlace(ir.v6_table, ir.any_v6, None, i)

\* two rules of one device, the first on 2.2.2.2/30, filed under 2.2.2.0, and with a
\* port range, the second open in port and subnet
C18_Witness ==
    /\ Built
    /\ Len(ir.raw) = 2
    /\ MapGet(ir.device, "Input") = <<0, 1>>
    /\ MapGet(ir.v4_table, <<V4(2, 2, 2, 0), 30>>) = <<0>>
    /\ ir.any_v4 = <<1>> /\ ir.any_v6 = <<1>>
    /\ Len(ir.port) = 1 /\ ir.any_port = <<1>>

ProbePorts == {0, 99, 100, 150, 200, 201, U16 - 1}

\* C19: for every rule with a port range [lo, hi], also with hi = 65535, the interval
\* tree is built and query_point(p) holds the rule's index for every p in [lo, hi]
\* and for no p outside.
C19_PortRangeInclusive ==
    \A i \in RuleIds :
        IsSome(ir.raw[i + 1].port) =>
            /\ Built
            /\ \A p \in ProbePorts :
                  (Unwrap(ir.raw[i + 1].port)[1] <= p /\ p <= Unwrap(ir.raw[i + 1].port)[2])
                      <=> (i \in SeqRange(QueryPoint(ir.port, p)))

Ascending(list) == \A a, b \in 1..Len(list) : a < b => list[a] < list[b]

AllAscending(m) == \A k \in DOMAIN m : Ascending(m[k])

\* C20: in every IndexedRules that new built, each list of rule indices is strictly
\* ascending: the lists under every device, protocol and exe, the any lists, and the
\* lists stored in the v4 and v6 prefix tables.
C20_ListsAscending ==
    Built =>
        /\ AllAscending(ir.device) /\ AllAscending(ir.proto) /\ AllAscending(ir.exe)
        /\ AllAscending(ir.v4_table) /\ AllAscending(ir.v6_table)
        /\ Ascending(ir.any_device) /\ Ascending(ir.any_proto) /\ Ascending(ir.any_exe)
        /\ Ascending(ir.any_port) /\ Ascending(ir.any_v4) /\ Ascending(ir.any_v6)

\* lists of two indices: under a protocol, under a v6 prefix, and in any_port
C20_Witness ==
    /\ Built
    /\ MapGet(ir.proto, "Tcp") = <<0, 1>>
    /\ MapGet(ir.v6_table, <<Ip6One, 128>>) = <<0, 1>>
    /\ ir.any_port = <<0, 1>>

====
